---- MODULE Spec2Model ----
(***************************************************************************)
(* A model of pyvcproj: the Visual C++ project file (vcproj/project.py)    *)
(* and the Visual Studio solution file (vcproj/solution.py).               *)
(*                                                                         *)
(* How the data is represented                                             *)
(*   - a Condition attribute is the sequence of the tokens that follow     *)
(*     "'$(Configuration)|$(Platform)'=='" in the string: <<X, "|", Y>>    *)
(*     stands for "'$(Configuration)|$(Platform)'=='X|Y'"; the empty       *)
(*     sequence stands for an element that has no Condition attribute;     *)
(*   - an element text is a string, None the Python None;                  *)
(*   - a line of a solution file is a record [kind, fields]: kind says     *)
(*     which of the module's regular expressions and startswith tests the *)
(*     line passes, fields are the strings they capture.                  *)
(***************************************************************************)
EXTENDS Integers, Sequences, FiniteSets, TLC

VARIABLES
    \* _matches_platform_configuration called on its own
    mCondition, mPlatform, mConfiguration, mCalled, mResult,
    \* Project.xml: the PropertyGroup elements, the state before the last
    \* call, the last call, the exception it raised, and whether some call
    \* so far passed the value None
    propertyGroups, pgBefore, pgCall, pgRaised, pgNoneUsed,
    \* Project.xml: the ItemDefinitionGroup elements, the last call and the
    \* exception it raised
    itemGroups, igCall, igRaised,
    \* Solution.__init__: the file read, the file written, the stream
    \* position, the place in the code, the last line read, the locals of
    \* the readers, and the object's fields
    file, outfile, reading, pos, pc, line, project, dependencies,
    sectionDependencies, globalLines, eofReads, projects, globals, firstParse,
    \* Solution.dependencies / set_dependencies: the projects before the
    \* last call, the last call and its result
    slnBefore, slnCall, slnResult,
    \* number of calls made on the document so far
    calls

matchVars == <<mCondition, mPlatform, mConfiguration, mCalled, mResult>>
pgVars == <<propertyGroups, pgBefore, pgCall, pgRaised, pgNoneUsed>>
igVars == <<itemGroups, igCall, igRaised>>
parseVars == <<file, outfile, reading, pos, pc, line, project, dependencies,
               sectionDependencies, globalLines, eofReads, firstParse>>
slnVars == <<projects, globals>>
depVars == <<slnBefore, slnCall, slnResult>>
vars == <<matchVars, pgVars, igVars, parseVars, slnVars, depVars, calls>>

----------------------------------------------------------------------------
(* Bounds of the model *)

\* calls made on one document
MaxCalls == 2
\* setting nodes in one PropertyGroup
MaxNodes == 6
\* ItemDefinitionGroups in the project file read
MaxGroups == 2
\* subgroups in one ItemDefinitionGroup of the file read
MaxSubgroups == 2
\* setting nodes in one subgroup of the file read
MaxItems == 2
\* Project blocks in the solution file read
MaxFileProjects == 2
\* ProjectSection blocks in one Project block of the file read
MaxSections == 1
\* dependency lines in one ProjectSection of the file read
MaxFileDependencies == 2
\* lines between Global and EndGlobal in the file read
MaxGlobalLines == 1
\* reads of the end of the input that a reader makes before the model stops
MaxEofReads == 2
\* projects of the solution that the dependency calls are made on
MaxProjects == 2
\* dependencies a project of that solution has before the call
MaxDependencies == 1
\* names in the list passed to set_dependencies
MaxNames == 2

----------------------------------------------------------------------------
(* Common values *)

None == "None"
AllConfigurations == "All Configurations"
NoCondition == <<>>

Min(S) == CHOOSE x \in S : \A y \in S : x <= y

RECURSIVE SeqsUpTo(_, _)
\* all sequences over S of length at most n
SeqsUpTo(S, n) ==
    IF n = 0 THEN {<<>>}
    ELSE LET shorter == SeqsUpTo(S, n - 1)
         IN shorter \cup {Append(s, x) : s \in shorter, x \in S}

RemoveAt(s, i) == SubSeq(s, 1, i - 1) \o SubSeq(s, i + 1, Len(s))

RECURSIVE Flatten(_)
Flatten(ss) == IF ss = <<>> THEN <<>> ELSE Head(ss) \o Flatten(Tail(ss))

----------------------------------------------------------------------------
(* project.py: the condition matcher *)

ConfigurationNames == {"Debug", "Release"}
PlatformNames == {"Win32", "x64"}
Words == ConfigurationNames \cup PlatformNames

\* the string "'$(Configuration)|$(Platform)'=='<left>|<right>'"
ConditionString(left, right) == <<left, "|", right>>

\* _REGEX_CONFIG_CONDITION.match(condition).groups(): group 1 is the word
\* before the bar, group 2 the word after it
_parse_config_condition(condition) == <<condition[1], condition[3]>>

_matches_platform_configuration(condition, platform, configuration) ==
    LET groups == _parse_config_condition(condition)
        p == groups[1]
        c == groups[2]
    IN /\ (platform = AllConfigurations \/ p = platform)
       /\ (configuration = AllConfigurations \/ c = configuration)

----------------------------------------------------------------------------
(* project.py: the ProjectConfigurations item group and the PropertyGroups *)

\* the (Configuration, Platform) children of the ItemGroup labelled
\* ProjectConfigurations, in declaration order
ProjectConfigurations ==
    << <<"Debug", "Win32">>, <<"Release", "Win32">>,
       <<"Debug", "x64">>, <<"Release", "x64">> >>

\* Project.configurations: the generator's items, (item_config, item_platform)
configurations(platform, configuration) ==
    LET Wanted(config_item) ==
            LET item_config == config_item[1]
                item_platform == config_item[2]
            IN /\ (platform = AllConfigurations \/ item_platform = platform)
               /\ (configuration = AllConfigurations \/ item_config = configuration)
    IN SelectSeq(ProjectConfigurations, Wanted)

\* ET.SubElement(group, item_name) with its Condition attribute and text
Element(tag, condition, text) ==
    [tag |-> tag, Condition |-> condition, text |-> text]

\* a PropertyGroup element
PropertyGroup(label, condition, children) ==
    [Label |-> label, Condition |-> condition, children |-> children]

\* indices of the children of group found by group.findall(item_name)
findall(group, item_name) ==
    {i \in DOMAIN group.children : group.children[i].tag = item_name}

\* Project.__property_group_item_for_config
__property_group_item_for_config(xml, platform, configuration, label, item_name) ==
    LET Visible(condition) ==
            \/ condition = NoCondition
            \/ _matches_platform_configuration(condition, platform, configuration)
        Items(group) ==
            {i \in findall(group, item_name) : Visible(group.children[i].Condition)}
        matching_groups ==
            {g \in DOMAIN xml : /\ xml[g].Label = label
                                /\ Visible(xml[g].Condition)
                                /\ Items(xml[g]) # {}}
    IN IF matching_groups = {} THEN None
       ELSE LET group == xml[Min(matching_groups)]
            IN group.children[Min(Items(group))].text

\* the result of a mutation: the tree and the exception raised (None: none)
Outcome(xml, raised) == [xml |-> xml, raised |-> raised]

\* lines 108-142: the branch taken for a concrete platform and configuration
SetForConcrete(xml, platform, configuration, label, item_name, val) ==
    LET condition_matching_groups ==
            {g \in DOMAIN xml :
                /\ xml[g].Label = label
                /\ \/ xml[g].Condition = NoCondition
                   \/ _matches_platform_configuration(xml[g].Condition, platform, configuration)}
    IN IF condition_matching_groups = {} THEN Outcome(xml, None)
       ELSE
        LET g == Min(condition_matching_groups)
            group == xml[g]
            items == findall(group, item_name)
            With(children) == [xml EXCEPT ![g].children = children]
        IN IF group.Condition = NoCondition
           THEN \* conditions on the items: item.attrib['Condition'] is read
                \* of every item up to the first that matches
                LET stops == {i \in items :
                                 \/ group.children[i].Condition = NoCondition
                                 \/ _matches_platform_configuration(
                                        group.children[i].Condition, platform, configuration)}
                    i == IF stops = {} THEN 0 ELSE Min(stops)
                IN IF i # 0 /\ group.children[i].Condition = NoCondition
                   THEN Outcome(xml, "KeyError")
                   ELSE IF val = None
                   THEN IF i # 0
                        THEN Outcome(With(RemoveAt(group.children, i)), None)
                        ELSE Outcome(xml, None)
                   ELSE IF i = 0
                   THEN Outcome(With(Append(group.children,
                            Element(item_name, ConditionString(configuration, platform), val))),
                            None)
                   ELSE Outcome(With([group.children EXCEPT ![i].text = val]), None)
           ELSE \* condition on the group: the first item of that name
                LET i == IF items = {} THEN 0 ELSE Min(items)
                IN IF val = None
                   THEN IF i # 0
                        THEN Outcome(With(RemoveAt(group.children, i)), None)
                        ELSE \* line 142 runs with item = None
                             Outcome(xml, "AttributeError")
                   ELSE IF i = 0
                   THEN Outcome(With(Append(group.children,
                            Element(item_name, NoCondition, val))), None)
                   ELSE Outcome(With([group.children EXCEPT ![i].text = val]), None)

RECURSIVE __set_property_group_items_for_config(_, _, _, _, _, _)
RECURSIVE SetForEach(_, _, _, _, _)

\* lines 105-106: the loop over self.configurations(platform, configuration),
\* which an exception leaves
SetForEach(xml, configs, label, item_name, val) ==
    IF configs = <<>> THEN Outcome(xml, None)
    ELSE LET config == Head(configs)
             done == __set_property_group_items_for_config(
                         xml, config[1], config[2], label, item_name, val)
         IN IF done.raised # None THEN done
            ELSE SetForEach(done.xml, Tail(configs), label, item_name, val)

\* Project.__set_property_group_items_for_config
__set_property_group_items_for_config(xml, platform, configuration, label, item_name, val) ==
    IF platform = AllConfigurations \/ configuration = AllConfigurations
    THEN SetForEach(xml, configurations(platform, configuration), label, item_name, val)
    ELSE SetForConcrete(xml, platform, configuration, label, item_name, val)

\* str(link_incremental).lower() and string_value.lower()
lower(string) ==
    CASE string = "True" -> "true"
      [] string = "False" -> "false"
      [] OTHER -> string

\* Project.enable_incremental_linking: "True", "False" or None
enable_incremental_linking(xml, platform, configuration) ==
    LET string_value == __property_group_item_for_config(
                            xml, platform, configuration, None, "LinkIncremental")
    IN IF string_value = None THEN None
       ELSE IF lower(string_value) = "true" THEN "True"
       ELSE "False"

\* Project.set_enable_incremental_linking
set_enable_incremental_linking(xml, platform, configuration, link_incremental) ==
    LET string_value == IF link_incremental = None THEN None
                        ELSE lower(link_incremental)
    IN __set_property_group_items_for_config(
           xml, platform, configuration, None, "LinkIncremental", string_value)

\* Project.output_directory
output_directory(xml, platform, configuration) ==
    __property_group_item_for_config(xml, platform, configuration, None, "OutDir")

\* Project.set_output_directory
set_output_directory(xml, platform, configuration, output_dir) ==
    __set_property_group_items_for_config(
        xml, platform, configuration, None, "OutDir", output_dir)

----------------------------------------------------------------------------
(* project.py: the ItemDefinitionGroups *)

\* An element text here is the sequence of the pieces between its ';':
\* <<"a", "b">> is "a;b", <<"">> the empty string and <<>> Python's None.
NoText == <<>>

\* ';'.join(additional_includes)
join(list) == IF list = <<>> THEN <<"">> ELSE list

\* includes.split(';')
split(text) == text

\* an ItemDefinitionGroup element, or one of its subgroups
ItemGroup(condition, children) == [Condition |-> condition, children |-> children]
Subgroup(tag, children) == [tag |-> tag, children |-> children]

\* index of the first child with the tag, 0 for None: element.find(tag)
find(children, tag) ==
    LET found == {i \in DOMAIN children : children[i].tag = tag}
    IN IF found = {} THEN 0 ELSE Min(found)

\* Project.__item_groups_for_config: the indices of the matching groups;
\* g.attrib['Condition'] raises KeyError when a group has no Condition
__item_groups_for_config(xml, platform, configuration) ==
    IF \E g \in DOMAIN xml : xml[g].Condition = NoCondition
    THEN [raised |-> "KeyError", groups |-> {}]
    ELSE [raised |-> None,
          groups |-> {g \in DOMAIN xml :
                         _matches_platform_configuration(
                             xml[g].Condition, platform, configuration)}]

\* the value a read returns: raised, or None, or a text
Returned(raised, text) == [raised |-> raised, text |-> text]

\* Project.__item_group_item_for_config; groups[0].find('sub/item') is the
\* first item of that name in any subgroup of that name
__item_group_item_for_config(xml, platform, configuration, subgroup_name, item_name) ==
    LET matching == __item_groups_for_config(xml, platform, configuration)
    IN IF matching.raised # None THEN Returned(matching.raised, NoText)
       ELSE IF matching.groups = {} THEN Returned(None, NoText)
       ELSE LET group == xml[Min(matching.groups)]
                holders == {j \in DOMAIN group.children :
                               /\ group.children[j].tag = subgroup_name
                               /\ find(group.children[j].children, item_name) # 0}
            IN IF holders = {} THEN Returned(None, NoText)
               ELSE LET subgroup == group.children[Min(holders)]
                    IN Returned(None,
                           subgroup.children[find(subgroup.children, item_name)].text)

\* lines 76-87: the body of the loop for one group
SetInGroup(group, subgroup_name, item_name, val) ==
    LET j == find(group.children, subgroup_name)
    IN IF j = 0 THEN group
       ELSE LET subgroup == group.children[j]
                i == find(subgroup.children, item_name)
                With(children) == [group EXCEPT !.children[j].children = children]
            IN IF val = NoText
               THEN IF i # 0 THEN With(RemoveAt(subgroup.children, i)) ELSE group
               ELSE IF i = 0
               THEN With(Append(subgroup.children, Element(item_name, NoCondition, val)))
               ELSE With([subgroup.children EXCEPT ![i].text = val])

\* Project.__set_item_group_items_for_config
__set_item_group_items_for_config(xml, platform, configuration, subgroup_name, item_name, val) ==
    LET matching == __item_groups_for_config(xml, platform, configuration)
    IN IF matching.raised # None THEN Outcome(xml, matching.raised)
       ELSE Outcome([g \in DOMAIN xml |->
                        IF g \in matching.groups
                        THEN SetInGroup(xml[g], subgroup_name, item_name, val)
                        ELSE xml[g]],
                    None)

\* Project.additional_include_directories: the list, as the text it is split from
additional_include_directories(xml, platform, configuration) ==
    LET includes == __item_group_item_for_config(
                        xml, platform, configuration, "ClCompile", "AdditionalIncludeDirectories")
    IN IF includes.raised # None \/ includes.text = NoText THEN includes
       ELSE Returned(None, split(includes.text))

\* Project.set_additional_include_directories; isNone says that
\* additional_includes is None
set_additional_include_directories(xml, platform, configuration, isNone, additional_includes) ==
    LET dirs == IF isNone THEN NoText ELSE join(additional_includes)
    IN __set_item_group_items_for_config(
           xml, platform, configuration, "ClCompile", "AdditionalIncludeDirectories", dirs)

----------------------------------------------------------------------------
(* The values of the variables a specification does not use *)

NoCall == [name |-> "none", platform |-> None, configuration |-> None, value |-> None]
NoItemCall == [name |-> "none", platform |-> None, configuration |-> None,
               isNone |-> FALSE, value |-> <<>>]
NoLine == [kind |-> "none", fields |-> <<>>]
NoSolutionCall == [name |-> "none", project_name |-> None, dependencies |-> <<>>]
NoResult == [raised |-> None, names |-> <<>>]
NoGlobals == [assigned |-> FALSE, lines |-> <<>>]
NoSolution == [projects |-> <<>>, globals |-> NoGlobals]

MatcherIdle ==
    /\ mCondition = NoCondition /\ mPlatform = None /\ mConfiguration = None
    /\ mCalled = FALSE /\ mResult = FALSE

PropertyGroupsIdle ==
    /\ propertyGroups = <<>> /\ pgBefore = <<>> /\ pgCall = NoCall
    /\ pgRaised = None /\ pgNoneUsed = FALSE

ItemGroupsIdle ==
    itemGroups = <<>> /\ igCall = NoItemCall /\ igRaised = None

ParseIdle ==
    /\ file = <<>> /\ outfile = <<>> /\ reading = "file" /\ pos = 0 /\ pc = "idle"
    /\ line = NoLine /\ project = NoLine /\ dependencies = <<>>
    /\ sectionDependencies = <<>> /\ globalLines = <<>> /\ eofReads = 0
    /\ firstParse = NoSolution

SolutionIdle == projects = <<>> /\ globals = NoGlobals

DependenciesIdle ==
    slnBefore = <<>> /\ slnCall = NoSolutionCall /\ slnResult = NoResult

----------------------------------------------------------------------------
(* The condition matcher called with a condition string and an axis *)

InitMatcher ==
    /\ mCondition \in {ConditionString(left, right) : left \in Words, right \in Words}
    /\ mPlatform \in Words \cup {AllConfigurations}
    /\ mConfiguration \in Words \cup {AllConfigurations}
    /\ mCalled = FALSE /\ mResult = FALSE
    /\ PropertyGroupsIdle /\ ItemGroupsIdle /\ ParseIdle /\ SolutionIdle
    /\ DependenciesIdle /\ calls = 0

Match ==
    /\ ~mCalled
    /\ mCalled' = TRUE
    /\ mResult' = _matches_platform_configuration(mCondition, mPlatform, mConfiguration)
    /\ UNCHANGED <<mCondition, mPlatform, mConfiguration, pgVars, igVars, parseVars,
                   slnVars, depVars, calls>>

NextMatcher == Match

SpecMatcher == InitMatcher /\ [][NextMatcher]_vars

\* C1: for the condition string '$(Configuration)|$(Platform)'=='<Config>|<Platform>'
\* the matcher returns true iff (platform is the wildcard or equals <Platform>)
\* and (configuration is the wildcard or equals <Config>).
C1_MatchRule ==
    mCalled =>
        LET Config == mCondition[1]
            Platform == mCondition[3]
        IN mResult <=>
              /\ (mPlatform = AllConfigurations \/ mPlatform = Platform)
              /\ (mConfiguration = AllConfigurations \/ mConfiguration = Config)

----------------------------------------------------------------------------
(* A project document whose unlabelled PropertyGroups hold LinkIncremental  *)
(* and OutDir, in either of the two shapes the files come in               *)

\* the texts LinkIncremental has in the file read; None: no such node
InitialTexts == {None, "false", "True"}

ConditionOf(config_item) == ConditionString(config_item[1], config_item[2])

\* the labelled group that Project.configuration_type reads
ConfigurationGroup ==
    PropertyGroup("Configuration", ConditionOf(ProjectConfigurations[1]),
                  <<Element("ConfigurationType", NoCondition, "Application")>>)

\* one PropertyGroup per configuration, the condition on the group
GroupConditioned(texts) ==
    <<ConfigurationGroup>> \o
    [k \in DOMAIN ProjectConfigurations |->
        PropertyGroup(None, ConditionOf(ProjectConfigurations[k]),
            IF texts[k] = None THEN <<>>
            ELSE <<Element("LinkIncremental", NoCondition, texts[k])>>)]

\* one PropertyGroup without a condition, the conditions on its items
ItemConditioned(texts) ==
    <<ConfigurationGroup,
      PropertyGroup(None, NoCondition,
          Flatten([k \in DOMAIN ProjectConfigurations |->
              IF texts[k] = None THEN <<>>
              ELSE <<Element("LinkIncremental",
                             ConditionOf(ProjectConfigurations[k]), texts[k])>>]))>>

InitPropertyGroups ==
    /\ \E texts \in [DOMAIN ProjectConfigurations -> InitialTexts] :
          propertyGroups \in {GroupConditioned(texts), ItemConditioned(texts)}
    /\ pgBefore = propertyGroups
    /\ pgCall = NoCall /\ pgRaised = None /\ pgNoneUsed = FALSE
    /\ MatcherIdle /\ ItemGroupsIdle /\ ParseIdle /\ SolutionIdle
    /\ DependenciesIdle /\ calls = 0

Platforms == PlatformNames \cup {AllConfigurations}
Configurations == ConfigurationNames \cup {AllConfigurations}

\* a call of a property-group mutator, whose outcome is done
PropertyGroupCall(name, platform, configuration, value, done) ==
    /\ calls < MaxCalls
    /\ \A g \in DOMAIN done.xml : Len(done.xml[g].children) <= MaxNodes
    /\ propertyGroups' = done.xml
    /\ pgBefore' = propertyGroups
    /\ pgCall' = [name |-> name, platform |-> platform,
                  configuration |-> configuration, value |-> value]
    /\ pgRaised' = done.raised
    /\ pgNoneUsed' = (pgNoneUsed \/ value = None)
    /\ calls' = calls + 1
    /\ UNCHANGED <<matchVars, igVars, parseVars, slnVars, depVars>>

SetEnableIncrementalLinking ==
    \E platform \in Platforms, configuration \in Configurations,
       link_incremental \in {"True", "False", None} :
        PropertyGroupCall("set_enable_incremental_linking",
            platform, configuration, link_incremental,
            set_enable_incremental_linking(
                propertyGroups, platform, configuration, link_incremental))

SetOutputDirectory ==
    \E platform \in Platforms, configuration \in Configurations,
       output_dir \in {"bin", None} :
        PropertyGroupCall("set_output_directory",
            platform, configuration, output_dir,
            set_output_directory(propertyGroups, platform, configuration, output_dir))

NextPropertyGroups == SetEnableIncrementalLinking \/ SetOutputDirectory

SpecPropertyGroups == InitPropertyGroups /\ [][NextPropertyGroups]_vars

\* the axis of the last call is a declared concrete pair
ConcreteCall ==
    /\ pgCall.platform \in PlatformNames
    /\ pgCall.configuration \in ConfigurationNames

\* the document is in the per-item condition shape
PerItemShape(xml) ==
    \E g \in DOMAIN xml : xml[g].Label = None /\ xml[g].Condition = NoCondition

\* C2: after set_enable_incremental_linking(p, c, true) with a concrete
\* declared (p, c), enable_incremental_linking(p, c) returns true and the
\* read of every other declared pair returns what it returned before.
C2_SetThenReadIsolated ==
    (/\ pgCall.name = "set_enable_incremental_linking"
     /\ pgCall.value = "True"
     /\ ConcreteCall)
    => /\ enable_incremental_linking(
              propertyGroups, pgCall.platform, pgCall.configuration) = "True"
       /\ \A p \in PlatformNames, c \in ConfigurationNames :
              <<p, c>> # <<pgCall.platform, pgCall.configuration>>
              => enable_incremental_linking(propertyGroups, p, c)
                     = enable_incremental_linking(pgBefore, p, c)

\* the mutation of the last call, made on xml for a concrete axis
SameMutation(xml, platform, configuration) ==
    IF pgCall.name = "set_enable_incremental_linking"
    THEN set_enable_incremental_linking(xml, platform, configuration, pgCall.value)
    ELSE set_output_directory(xml, platform, configuration, pgCall.value)

RECURSIVE OncePerPair(_, _)
\* the mutation of the last call made once for each (config, platform) of
\* pairs, in order, each time with platform and configuration of the pair
OncePerPair(xml, pairs) ==
    IF pairs = <<>> THEN xml
    ELSE OncePerPair(SameMutation(xml, Head(pairs)[2], Head(pairs)[1]).xml, Tail(pairs))

\* C9: a property-group mutation called with the wildcard in either axis
\* component leaves the document as calling it once for each concrete
\* (platform, configuration) of configurations() does, and creates no node
\* whose condition names the wildcard.
C9_WildcardIsExpansion ==
    (pgCall.name # "none" /\ ~ConcreteCall)
    => /\ propertyGroups =
              OncePerPair(pgBefore, configurations(pgCall.platform, pgCall.configuration))
       /\ \A g \in DOMAIN propertyGroups :
            \A i \in DOMAIN propertyGroups[g].children :
              LET condition == propertyGroups[g].children[i].Condition
              IN \A k \in DOMAIN condition : condition[k] # AllConfigurations

\* C10: after mutations with non-null values of a document in the per-item
\* shape, the group holds for each setting name and each declared pair at
\* most one node with the pair's condition, and every node carries the
\* condition '<Config>|<Platform>' of a declared pair.
C10_OneNodePerPair ==
    (PerItemShape(propertyGroups) /\ ~pgNoneUsed)
    => \A g \in DOMAIN propertyGroups :
         (propertyGroups[g].Label = None /\ propertyGroups[g].Condition = NoCondition)
         => LET children == propertyGroups[g].children
            IN /\ \A i \in DOMAIN children :
                     \E k \in DOMAIN ProjectConfigurations :
                         children[i].Condition = ConditionOf(ProjectConfigurations[k])
               /\ \A i, j \in DOMAIN children :
                     (/\ children[i].tag = children[j].tag
                      /\ children[i].Condition = children[j].Condition)
                     => i = j

----------------------------------------------------------------------------
(* A project document whose ItemDefinitionGroups hold ClCompile subgroups   *)
(* with AdditionalIncludeDirectories                                       *)

InitialItems ==
    SeqsUpTo({Element("AdditionalIncludeDirectories", NoCondition, <<"inc">>)}, MaxItems)

InitialSubgroups ==
    SeqsUpTo({Subgroup("ClCompile", items) : items \in InitialItems}, MaxSubgroups)

InitialItemGroups ==
    SeqsUpTo({ItemGroup(condition, subgroups) :
                 condition \in {NoCondition, ConditionString("Debug", "Win32"),
                                ConditionString("Release", "Win32")},
                 subgroups \in InitialSubgroups},
             MaxGroups)

InitItemGroups ==
    /\ itemGroups \in InitialItemGroups
    /\ igCall = NoItemCall /\ igRaised = None
    /\ MatcherIdle /\ PropertyGroupsIdle /\ ParseIdle /\ SolutionIdle
    /\ DependenciesIdle /\ calls = 0

SetAdditionalIncludeDirectories ==
    \E platform \in Words \cup {AllConfigurations},
       configuration \in Words \cup {AllConfigurations},
       isNone \in BOOLEAN :
        LET additional_includes == IF isNone THEN <<>> ELSE <<"src", "gen">>
            done == set_additional_include_directories(
                        itemGroups, platform, configuration, isNone, additional_includes)
        IN /\ calls < MaxCalls
           /\ itemGroups' = done.xml
           /\ igCall' = [name |-> "set_additional_include_directories",
                         platform |-> platform, configuration |-> configuration,
                         isNone |-> isNone, value |-> additional_includes]
           /\ igRaised' = done.raised
           /\ calls' = calls + 1
           /\ UNCHANGED <<matchVars, pgVars, parseVars, slnVars, depVars>>

NextItemGroups == SetAdditionalIncludeDirectories

SpecItemGroups == InitItemGroups /\ [][NextItemGroups]_vars

\* C8: after set_additional_include_directories(p, c, None) the read
\* additional_include_directories(p, c) returns None.
C8_SetNoneThenAbsent ==
    (igCall.name = "set_additional_include_directories" /\ igCall.isNone)
    => additional_include_directories(itemGroups, igCall.platform, igCall.configuration)
           = Returned(None, NoText)

----------------------------------------------------------------------------
(* solution.py: the lines of a solution file *)

Line(kind, fields) == [kind |-> kind, fields |-> fields]

\* a line _REGEX_PROJECT_FILE matches
ProjectLine(type_guid, name, path, guid) ==
    Line("Project", <<type_guid, name, path, guid>>)
\* a line that starts with 'Project' and that _REGEX_PROJECT_FILE does not match
BadProjectLine == Line("BadProject", <<>>)
\* a line _REGEX_PROJECT_DEPENDENCIES_SECTION matches (indented, as write has it)
ProjectSectionLine == Line("ProjectSection", <<"ProjectDependencies">>)
\* a line _REGEX_DEPENDENCY matches
DependencyLine(left, right) == Line("Dependency", <<left, right>>)
EndProjectSectionLine == Line("EndProjectSection", <<>>)
EndProjectLine == Line("EndProject", <<>>)
GlobalLine == Line("Global", <<>>)
EndGlobalLine == Line("EndGlobal", <<>>)
\* any other line: its text up to the last character that is not white
\* space, and the white space that follows it before the line end
TextLine(text, trailing) == Line("Text", <<text, trailing>>)
\* what readline returns at the end of the input: the empty string
EndOfInput == Line("", <<>>)

\* line.rstrip(): also of the empty string, which gives the empty string
rstrip(l) ==
    IF l = EndOfInput THEN TextLine("", "")
    ELSE IF l.kind = "Text" THEN TextLine(l.fields[1], "")
    ELSE l

\* line.startswith('Project')
StartsWithProject(l) == l.kind \in {"Project", "BadProject"}
\* _REGEX_END_PROJECT.match(line): r'\s*EndProject' is a prefix of the
\* EndProjectSection lines too
MatchesEndProject(l) == l.kind \in {"EndProject", "EndProjectSection"}

\* the _Project namedtuple
_Project(type_guid, name, path, guid, deps) ==
    [type_guid |-> type_guid, name |-> name, path |-> path, guid |-> guid,
     dependencies |-> deps]

\* f.readline(): the line, and the position after it
readline(stream, at) ==
    IF at <= Len(stream) THEN [line |-> stream[at], pos |-> at + 1]
    ELSE [line |-> EndOfInput, pos |-> at]

\* the lines print(..., file=f) writes for the projects (lines 127-134)
RECURSIVE ProjectLines(_)
ProjectLines(ps) ==
    IF ps = <<>> THEN <<>>
    ELSE LET p == Head(ps)
         IN <<ProjectLine(p.type_guid, p.name, p.path, p.guid)>>
            \o (IF p.dependencies # <<>>
                THEN <<ProjectSectionLine>>
                     \o [k \in DOMAIN p.dependencies |->
                            DependencyLine(p.dependencies[k], p.dependencies[k])]
                     \o <<EndProjectSectionLine>>
                ELSE <<>>)
            \o <<EndProjectLine>>
            \o ProjectLines(Tail(ps))

\* lines 124-135: what write has written when it comes to self.globals
WrittenUpToGlobal(ps) ==
    <<TextLine("", ""),
      TextLine("Microsoft Visual Studio Solution File, Format Version 11.00", ""),
      TextLine("# Visual Studio 2010", "")>>
    \o ProjectLines(ps) \o <<GlobalLine>>

----------------------------------------------------------------------------
(* The solution files read: every file of the grammar within the bounds,   *)
(* and every file cut short                                                *)

TypeGuid == "{8BC9CEB8}"
FileHeaders ==
    {ProjectLine(TypeGuid, "A", "A.vcxproj", "{1}"),
     ProjectLine(TypeGuid, "B", "B.vcxproj", "{2}")}

FileSections ==
    {<<ProjectSectionLine>>
        \o [k \in DOMAIN guids |-> DependencyLine(guids[k], guids[k])]
        \o <<EndProjectSectionLine>> :
     guids \in SeqsUpTo({"{1}", "{2}"}, MaxFileDependencies)}

FileProjects ==
    {<<header>> \o Flatten(sections) \o <<EndProjectLine>> :
     header \in FileHeaders, sections \in SeqsUpTo(FileSections, MaxSections)}

FileGlobals ==
    {<<>>} \cup
    {<<GlobalLine>> \o texts \o <<EndGlobalLine>> :
     texts \in SeqsUpTo({TextLine("GlobalSection", ""), TextLine("GlobalSection", " ")},
                        MaxGlobalLines)}

Files ==
    {<<TextLine("", "")>> \o Flatten(blocks) \o global :
     blocks \in SeqsUpTo(FileProjects, MaxFileProjects), global \in FileGlobals}

FilesRead == UNION {{SubSeq(f, 1, n) : n \in 0..Len(f)} : f \in Files}

----------------------------------------------------------------------------
(* solution.py: Solution.__init__, its readers, and Solution.write *)

InitParse ==
    /\ file \in FilesRead
    /\ outfile = <<>> /\ reading = "file" /\ pos = 1 /\ pc = "closed"
    /\ line = NoLine /\ project = NoLine /\ dependencies = <<>>
    /\ sectionDependencies = <<>> /\ globalLines = <<>> /\ eofReads = 0
    /\ firstParse = NoSolution
    /\ projects = <<>> /\ globals = NoGlobals
    /\ MatcherIdle /\ PropertyGroupsIdle /\ ItemGroupsIdle /\ DependenciesIdle
    /\ calls = 0

\* the lines of the file that is open
Stream == IF reading = "file" THEN file ELSE outfile

NotParsing == <<matchVars, pgVars, igVars, depVars, calls>>

\* lines 37-40: the first line is read
Open ==
    /\ pc = "closed"
    /\ LET read == readline(Stream, pos)
       IN line' = read.line /\ pos' = read.pos
    /\ projects' = <<>>
    /\ pc' = "Scanning"
    /\ UNCHANGED <<file, outfile, reading, project, dependencies, sectionDependencies,
                   globalLines, eofReads, firstParse, globals, NotParsing>>

\* lines 41-50: one turn of the loop of __init__, up to the call of a reader
Scan ==
    /\ pc = "Scanning"
    /\ line # EndOfInput
    /\ LET read == readline(Stream, pos)
       IN /\ line' = read.line /\ pos' = read.pos
          /\ IF StartsWithProject(read.line) /\ read.line.kind = "Project"
             THEN /\ pc' = "InProject"
                  /\ project' = read.line
                  /\ dependencies' = <<>>
                  /\ UNCHANGED globalLines
             ELSE IF ~StartsWithProject(read.line) /\ read.line.kind = "Global"
             THEN /\ pc' = "InGlobal"
                  /\ globalLines' = <<>>
                  /\ UNCHANGED <<project, dependencies>>
             ELSE /\ pc' = "Scanning"
                  /\ UNCHANGED <<project, dependencies, globalLines>>
    /\ UNCHANGED <<file, outfile, reading, sectionDependencies, eofReads, firstParse,
                   projects, globals, NotParsing>>

\* the loop of __init__ ends and the constructor returns
Constructed ==
    /\ pc = "Scanning"
    /\ line = EndOfInput
    /\ pc' = "constructed"
    /\ UNCHANGED <<file, outfile, reading, pos, line, project, dependencies,
                   sectionDependencies, globalLines, eofReads, firstParse,
                   projects, globals, NotParsing>>

\* a reader has read the end of the input and goes round its loop again
AtEndOfInput(read) ==
    IF read.line = EndOfInput THEN eofReads' = eofReads + 1 ELSE UNCHANGED eofReads

\* lines 55-63: one turn of the loop of __read_project
ReadProject ==
    /\ pc = "InProject"
    /\ eofReads < MaxEofReads
    /\ LET read == readline(Stream, pos)
       IN /\ pos' = read.pos
          /\ IF read.line = NoLine
             THEN \* line is None
                  /\ pc' = "SolutionFileError"
                  /\ UNCHANGED <<projects, sectionDependencies, eofReads>>
             ELSE IF MatchesEndProject(read.line)
             THEN /\ projects' = Append(projects,
                        _Project(project.fields[1], project.fields[2], project.fields[3],
                                 project.fields[4], dependencies))
                  /\ pc' = "Scanning"
                  /\ UNCHANGED <<sectionDependencies, eofReads>>
             ELSE IF read.line.kind = "ProjectSection"
             THEN /\ pc' = "InDependencySection"
                  /\ sectionDependencies' = <<>>
                  /\ UNCHANGED <<projects, eofReads>>
             ELSE /\ pc' = "InProject"
                  /\ AtEndOfInput(read)
                  /\ UNCHANGED <<projects, sectionDependencies>>
    /\ UNCHANGED <<file, outfile, reading, line, project, dependencies, globalLines,
                   firstParse, globals, NotParsing>>

\* lines 68-77: one turn of the loop of __read_dependencies
ReadDependencies ==
    /\ pc = "InDependencySection"
    /\ eofReads < MaxEofReads
    /\ LET read == readline(Stream, pos)
       IN /\ pos' = read.pos
          /\ IF read.line = NoLine
             THEN /\ pc' = "SolutionFileError"
                  /\ UNCHANGED <<dependencies, sectionDependencies, eofReads>>
             ELSE IF read.line.kind = "EndProjectSection"
             THEN /\ dependencies' = sectionDependencies
                  /\ pc' = "InProject"
                  /\ UNCHANGED <<sectionDependencies, eofReads>>
             ELSE IF read.line.kind = "Dependency"
             THEN /\ sectionDependencies' = Append(sectionDependencies, read.line.fields[1])
                  /\ pc' = "InDependencySection"
                  /\ UNCHANGED <<dependencies, eofReads>>
             ELSE /\ pc' = "InDependencySection"
                  /\ AtEndOfInput(read)
                  /\ UNCHANGED <<dependencies, sectionDependencies>>
    /\ UNCHANGED <<file, outfile, reading, line, project, globalLines, firstParse,
                   projects, globals, NotParsing>>

\* lines 82-89: one turn of the loop of __read_global
ReadGlobal ==
    /\ pc = "InGlobal"
    /\ eofReads < MaxEofReads
    /\ LET read == readline(Stream, pos)
       IN /\ pos' = read.pos
          /\ IF read.line = NoLine
             THEN /\ pc' = "SolutionFileError"
                  /\ UNCHANGED <<globals, globalLines, eofReads>>
             ELSE IF read.line.kind = "EndGlobal"
             THEN /\ globals' = [assigned |-> TRUE, lines |-> globalLines]
                  /\ pc' = "Scanning"
                  /\ UNCHANGED <<globalLines, eofReads>>
             ELSE /\ globalLines' = Append(globalLines, rstrip(read.line))
                  /\ pc' = "InGlobal"
                  /\ AtEndOfInput(read)
                  /\ UNCHANGED globals
    /\ UNCHANGED <<file, outfile, reading, line, project, dependencies,
                   sectionDependencies, firstParse, projects, NotParsing>>

\* Solution.write to another file name; self.globals raises AttributeError
\* when __init__ met no Global line, after the lines before it are written
Write ==
    /\ pc = "constructed"
    /\ reading = "file"
    /\ IF globals.assigned
       THEN /\ outfile' = WrittenUpToGlobal(projects) \o globals.lines \o <<EndGlobalLine>>
            /\ pc' = "written"
       ELSE /\ outfile' = WrittenUpToGlobal(projects)
            /\ pc' = "AttributeError"
    /\ UNCHANGED <<file, reading, pos, line, project, dependencies, sectionDependencies,
                   globalLines, eofReads, firstParse, projects, globals, NotParsing>>

\* the file written is parsed by a new Solution
ParseWritten ==
    /\ pc = "written"
    /\ firstParse' = [projects |-> projects, globals |-> globals]
    /\ reading' = "outfile"
    /\ pos' = 1 /\ pc' = "closed"
    /\ line' = NoLine /\ project' = NoLine /\ dependencies' = <<>>
    /\ sectionDependencies' = <<>> /\ globalLines' = <<>>
    /\ projects' = <<>> /\ globals' = NoGlobals
    /\ UNCHANGED <<file, outfile, eofReads, NotParsing>>

NextParse ==
    \/ Open \/ Scan \/ Constructed \/ ReadProject \/ ReadDependencies \/ ReadGlobal
    \/ Write \/ ParseWritten

SpecParse == InitParse /\ [][NextParse]_vars


\* C3: when the input ends inside a Project, ProjectSection or Global block,
\* parsing ends by raising the truncation error; no Solution is returned.
C3_TruncationRaises ==
    eofReads > 0 => pc = "SolutionFileError"

\* the index of the first line of one of the kinds after line i of lines,
\* Len(lines) + 1 when there is none
NextOf(lines, i, kinds) ==
    LET later == {k \in DOMAIN lines : k > i /\ lines[k].kind \in kinds}
    IN IF later = {} THEN Len(lines) + 1 ELSE Min(later)

\* the Project/EndProject blocks of a file, as the grammar of the file
\* format has them: the fields of each header and the GUIDs on the left of
\* the dependency lines of the block, in file order
BlocksOf(lines) ==
    LET headers == {i \in DOMAIN lines : lines[i].kind = "Project"}
        Dependencies(i) ==
            LET inside == SubSeq(lines, i + 1, NextOf(lines, i, {"EndProject"}) - 1)
                IsDependency(l) == l.kind = "Dependency"
                left == SelectSeq(inside, IsDependency)
            IN [k \in DOMAIN left |-> left[k].fields[1]]
        Block(i) == _Project(lines[i].fields[1], lines[i].fields[2], lines[i].fields[3],
                             lines[i].fields[4], Dependencies(i))
        \* the k-th header
        Nth(k) == CHOOSE i \in headers : Cardinality({j \in headers : j <= i}) = k
    IN [k \in 1..Cardinality(headers) |-> Block(Nth(k))]

\* the lines a file has between Global and EndGlobal
GlobalLinesOf(lines) ==
    LET start == NextOf(lines, 0, {"Global"})
    IN SubSeq(lines, start + 1, NextOf(lines, start, {"EndGlobal"}) - 1)

\* C5: for a file that parses without error, write succeeds; the file
\* written has the Project blocks of the file read, field by field and
\* dependency by dependency, and between Global and EndGlobal the lines the
\* file read has there, verbatim; parsing it gives the same projects and
\* the same global lines.
C5_WriteReproducesFile ==
    /\ pc # "AttributeError"
    /\ pc = "written" => /\ BlocksOf(outfile) = BlocksOf(file)
                         /\ GlobalLinesOf(outfile) = GlobalLinesOf(file)
    /\ (pc = "constructed" /\ reading = "outfile")
           => firstParse = [projects |-> projects, globals |-> globals]


----------------------------------------------------------------------------
(* solution.py: Solution.dependencies and Solution.set_dependencies *)

\* Solution.__project_from_name: the index of the project, 0 for None
__project_from_name(ps, project_name) ==
    LET named == {i \in DOMAIN ps : ps[i].name = project_name}
    IN IF named = {} THEN 0 ELSE Min(named)

\* Solution.__project_from_id: the index of the project; 0 when next(filter(...))
\* raises StopIteration
__project_from_id(ps, project_id) ==
    LET found == {i \in DOMAIN ps : ps[i].guid = project_id}
    IN IF found = {} THEN 0 ELSE Min(found)

RECURSIVE ListOfMap(_, _)
\* list(map(lambda d: self.__project_from_id(d).name, guids)): a
\* StopIteration that the lambda raises ends the iteration of the map
ListOfMap(ps, guids) ==
    IF guids = <<>> THEN <<>>
    ELSE LET i == __project_from_id(ps, Head(guids))
         IN IF i = 0 THEN <<>>
            ELSE <<ps[i].name>> \o ListOfMap(ps, Tail(guids))

\* Solution.dependencies, its result consumed: the exception raised and the
\* names yielded
dependencies_of(ps, project_name) ==
    LET i == __project_from_name(ps, project_name)
    IN IF i = 0 THEN [raised |-> "SolutionFileError", names |-> <<>>]
       ELSE [raised |-> None, names |-> ListOfMap(ps, ps[i].dependencies)]

RECURSIVE Extended(_, _, _)
\* project.dependencies.extend(self.__project_from_name(d).guid for d in names):
\* the list keeps what was appended before None.guid raises AttributeError
Extended(ps, list, names) ==
    IF names = <<>> THEN [list |-> list, raised |-> None]
    ELSE LET i == __project_from_name(ps, Head(names))
         IN IF i = 0 THEN [list |-> list, raised |-> "AttributeError"]
            ELSE Extended(ps, Append(list, ps[i].guid), Tail(names))

\* a plausible slip: the list is extended without being cleared first
set_dependencies_uncleared(ps, project_name, names) ==
    LET i == __project_from_name(ps, project_name)
    IN IF i = 0 THEN [projects |-> ps, raised |-> "SolutionFileError"]
       ELSE LET extended == Extended(ps, ps[i].dependencies, names)
            IN [projects |-> [ps EXCEPT ![i].dependencies = extended.list],
                raised |-> extended.raised]

\* Solution.set_dependencies: the projects after the call, the exception raised
set_dependencies(ps, project_name, names) ==
    LET i == __project_from_name(ps, project_name)
    IN IF i = 0 THEN [projects |-> ps, raised |-> "SolutionFileError"]
       ELSE LET extended == Extended(ps, <<>>, names)
            IN [projects |-> [ps EXCEPT ![i].dependencies = extended.list],
                raised |-> extended.raised]

\* the name and the GUID of the k-th project of a well-formed solution
NameAt == <<"A", "B", "C", "D">>
GuidAt == <<"{1}", "{2}", "{3}", "{4}">>
\* the GUIDs on the dependency lines of the file: "{9}" is no project's
DependencyGuids == {"{2}", "{9}"}

\* the k-th project of the solution parsed: a file may give it the name or
\* the GUID of the first project again
ProjectsAt(k) ==
    {_Project(TypeGuid, name, "x.vcxproj", guid, deps) :
        name \in {NameAt[k], NameAt[1]}, guid \in {GuidAt[k], GuidAt[1]},
        deps \in SeqsUpTo(DependencyGuids, MaxDependencies)}

RECURSIVE Solutions(_)
\* the project lists of n projects
Solutions(n) ==
    IF n = 0 THEN {<<>>}
    ELSE {Append(ps, p) : ps \in Solutions(n - 1), p \in ProjectsAt(n)}

InitDependencies ==
    /\ projects \in UNION {Solutions(n) : n \in 1..MaxProjects}
    /\ globals = [assigned |-> TRUE, lines |-> <<>>]
    /\ pc = "constructed"
    /\ file = <<>> /\ outfile = <<>> /\ reading = "file" /\ pos = 0
    /\ line = NoLine /\ project = NoLine /\ dependencies = <<>>
    /\ sectionDependencies = <<>> /\ globalLines = <<>> /\ eofReads = 0
    /\ firstParse = NoSolution
    /\ slnBefore = projects /\ slnCall = NoSolutionCall /\ slnResult = NoResult
    /\ MatcherIdle /\ PropertyGroupsIdle /\ ItemGroupsIdle /\ calls = 0

\* the names the calls are made with: "Z" is no project's
CallNames == {"A", "B", "Z"}

\* s.dependencies(project_name), the map consumed
Dependencies ==
    \E project_name \in CallNames :
        /\ pc = "constructed" /\ slnCall = NoSolutionCall
        /\ slnCall' = [name |-> "dependencies", project_name |-> project_name,
                       dependencies |-> <<>>]
        /\ slnResult' = dependencies_of(projects, project_name)
        /\ slnBefore' = projects
        /\ UNCHANGED <<matchVars, pgVars, igVars, parseVars, slnVars, calls>>

\* s.set_dependencies(project_name, names)
SetDependencies ==
    \E project_name \in CallNames, names \in SeqsUpTo(CallNames, MaxNames) :
        LET done == set_dependencies(projects, project_name, names)
        IN /\ pc = "constructed" /\ slnCall = NoSolutionCall
           /\ slnCall' = [name |-> "set_dependencies", project_name |-> project_name,
                          dependencies |-> names]
           /\ slnResult' = [raised |-> done.raised, names |-> <<>>]
           /\ slnBefore' = projects
           /\ projects' = done.projects
           /\ UNCHANGED <<matchVars, pgVars, igVars, parseVars, globals, calls>>

NextDependencies == Dependencies \/ SetDependencies

SpecDependencies == InitDependencies /\ [][NextDependencies]_vars

\* the project and every name of the last call resolve in the solution
CallResolves ==
    /\ __project_from_name(slnBefore, slnCall.project_name) # 0
    /\ \A k \in DOMAIN slnCall.dependencies :
           __project_from_name(slnBefore, slnCall.dependencies[k]) # 0

\* every project but the one the last call names has its dependencies of
\* before the call
OthersUnchanged ==
    /\ Len(projects) = Len(slnBefore)
    /\ \A i \in DOMAIN projects :
           i # __project_from_name(slnBefore, slnCall.project_name)
           => projects[i] = slnBefore[i]

\* after set_dependencies(A, L), dependencies(A) yields the names of L in order
GetYieldsWhatWasSet ==
    dependencies_of(projects, slnCall.project_name)
        = [raised |-> None, names |-> slnCall.dependencies]

\* no two projects of the solution have the same GUID
DistinctGuids(ps) ==
    \A i, j \in DOMAIN ps : ps[i].guid = ps[j].guid => i = j

\* C4 as stated: for every solution and every list L of names that all
\* resolve, after set_dependencies(A, L) dependencies(A) yields the names of
\* L in order and every other project's dependency list is unchanged.
C4_SetThenGet ==
    (slnCall.name = "set_dependencies" /\ CallResolves)
    => GetYieldsWhatWasSet /\ OthersUnchanged

\* C4 amended: the same, for every solution no two projects of which have
\* the same GUID.
C4_SetThenGetDistinctGuids ==
    (slnCall.name = "set_dependencies" /\ CallResolves /\ DistinctGuids(slnBefore))
    => GetYieldsWhatWasSet /\ OthersUnchanged

\* C4's case: a list of two names, one of them the project's own, set on a
\* project that had another dependency, in a solution of two projects with
\* distinct GUIDs, the other project having a dependency of its own
C4_Witness ==
    /\ slnCall.name = "set_dependencies" /\ CallResolves /\ DistinctGuids(slnBefore)
    /\ Len(slnBefore) = 2
    /\ slnCall.project_name = "A"
    /\ slnCall.dependencies = <<"B", "A">>
    /\ slnBefore[1].dependencies = <<"{9}">>
    /\ slnBefore[2].dependencies = <<"{2}">>
    /\ projects[1].dependencies = <<"{2}", "{1}">>
    /\ projects[2] = slnBefore[2]
    /\ slnResult.raised = None

\* C6: dependencies(name) of a project whose dependency list holds a GUID
\* that is no project's fails when its result is consumed; it yields no
\* shortened list of names.
C6_DanglingFails ==
    LET i == __project_from_name(slnBefore, slnCall.project_name)
    IN (/\ slnCall.name = "dependencies"
        /\ i # 0
        /\ \E k \in DOMAIN slnBefore[i].dependencies :
               __project_from_id(slnBefore, slnBefore[i].dependencies[k]) = 0)
       => slnResult.raised # None

\* C7: set_dependencies(name, names) fails with the NotFound error when name
\* or a member of names is no project's name, and then every project has
\* the dependency list it had before the call.
C7_FailureLeavesUnchanged ==
    (slnCall.name = "set_dependencies" /\ ~CallResolves)
    => /\ slnResult.raised = "SolutionFileError"
       /\ projects = slnBefore

====
